---------------------------- MODULE Spec2Model ----------------------------
(***************************************************************************)
(* A model of Saucer (src/main.py): the chunk-keyed procedural universe,   *)
(* the flying saucer's flight/landing state machine, the editor-archive    *)
(* importer and the orbital groups it builds, and the main loop that       *)
(* drives them.                                                            *)
(*                                                                         *)
(* Numbers.  The program computes in floating point; the model computes in *)
(* fixed point.  Lengths and speeds are integers counting 1/20 of a world  *)
(* unit (so 0.85 is 17, 2.5 is 50, 11.0 is 220), yaw/pitch/camera angles   *)
(* are integers counting 1/100 of a degree, arguments of sin/cos are       *)
(* milliradians and their results thousandths.  Products with a fraction   *)
(* round to the nearest integer.                                           *)
(***************************************************************************)
EXTENDS Integers, Sequences, FiniteSets, TLC

VARIABLES
    planets,          \* Universe.planets: chunk key -> sequence of body ids
    genCount,         \* history: chunk key -> number of body lists built for it
    heap,             \* the Planet objects: body id -> fields
    nextId,           \* the id the next constructed Planet gets
    rng,              \* the state of the process-wide random generator
    player,           \* the Saucer
    custom_systems,   \* the module-level list of SolarSystem objects
    i_pressed,        \* main(): the import key's edge detector
    input,            \* main(): what the frame sampled (keys, mouse, wheel, dialog)
    active,           \* main(): active_planets of the frame
    chunk,            \* main(): cx, cy, cz of the frame (<<>>: not bound yet)
    pc,               \* main(): the position inside the loop body
    frame,            \* number of loop iterations (or update calls) started
    calls,            \* history: number of load_editor_zip calls
    lastFile,         \* history: what the file dialog returned to the last call
    dispatched        \* history: the loader the last call dispatched to

vars == <<planets, genCount, heap, nextId, rng, player, custom_systems,
          i_pressed, input, active, chunk, pc, frame, calls, lastFile, dispatched>>

---------------------------------------------------------------------------
(* Fixed point *)

\* n world units as a length
Fix(n) == 20 * n

\* n / d rounded to the nearest integer (d > 0)
RoundDiv(n, d) == (2 * n + d) \div (2 * d)

Abs(n) == IF n < 0 THEN -n ELSE n

Max(a, b) == IF a > b THEN a ELSE b

Min(a, b) == IF a < b THEN a ELSE b

\* dict.get(key, default) on a record that holds only the keys present
Get(d, k, default) == IF k \in DOMAIN d THEN d[k] ELSE default

\* {} : a dict with no key
EmptyDict == [k \in {} |-> 0]

---------------------------------------------------------------------------
(* Vec3 and the math helpers *)

Vec3(x, y, z) == [x |-> x, y |-> y, z |-> z]

VAdd(a, b) == Vec3(a.x + b.x, a.y + b.y, a.z + b.z)

VSub(a, b) == Vec3(a.x - b.x, a.y - b.y, a.z - b.z)

\* v.mul(num / den)
VMul(v, num, den) ==
    Vec3(RoundDiv(v.x * num, den), RoundDiv(v.y * num, den), RoundDiv(v.z * num, den))

\* the largest r in lo..hi with r * r <= n (lo * lo <= n)
RECURSIVE SqrtBetween(_, _, _)
SqrtBetween(n, lo, hi) ==
    IF lo >= hi THEN lo
    ELSE LET mid == (lo + hi + 1) \div 2
         IN  IF mid * mid <= n THEN SqrtBetween(n, mid, hi)
             ELSE SqrtBetween(n, lo, mid - 1)

\* math.sqrt on a non-negative integer, rounded down
Sqrt(n) == SqrtBetween(n, 0, 46340)

\* the largest coordinate whose squares still sum inside the integer range
FarAway == Fix(1300)

\* Vec3.mag; a vector with a coordinate beyond FarAway reports that coordinate,
\* which is a lower bound of its magnitude and above every radius compared to it
Mag(v) ==
    LET m == Max(Abs(v.x), Max(Abs(v.y), Abs(v.z)))
    IN  IF m > FarAway THEN m
        ELSE Sqrt(v.x * v.x + v.y * v.y + v.z * v.z)

\* the factor by which Vec3.normalize scales a vector before taking its magnitude,
\* so that short vectors keep their precision and the squares stay in range
NormScale(v) ==
    LET m == Max(Abs(v.x), Max(Abs(v.y), Abs(v.z)))
    IN  IF m <= Fix(130) THEN 10 ELSE IF m <= Fix(325) THEN 4 ELSE 1

\* Vec3.normalize for the magnitude m of k * v
NormalizeBy(v, k, m) ==
    IF m > 0 THEN Vec3(RoundDiv(v.x * 10000 * k, m), RoundDiv(v.y * 10000 * k, m),
                       RoundDiv(v.z * 10000 * k, m))
    ELSE Vec3(0, 0, 0)

\* Vec3.normalize, in 1/10000; the zero vector stays the zero vector
Normalize(v) ==
    NormalizeBy(v, NormScale(v), Mag(VMul(v, NormScale(v), 1)))

Dist(a, b) == Mag(VSub(a, b))

\* lerp(a, b, t) with t = tNum / 100
Lerp(a, b, tNum) == a + RoundDiv((b - a) * tNum, 100)

\* a lerp_angle that goes straight for the target: lerp(current, target, t)
LerpAngleUnwrapped(current, target, tNum) ==
    current + RoundDiv((target - current) * tNum, 100)

\* lerp_angle(current, target, t) on angles in 1/100 degree, t = tNum / 100
LerpAngle(current, target, tNum) ==
    LET diff == ((target - current + 18000) % 36000) - 18000
    IN  current + RoundDiv(diff * tNum, 100)

\* math.radians: 1/100 degree to milliradians (sin and cos have period 360 degrees)
Radians(a) == RoundDiv((((a + 18000) % 36000) - 18000) * 17453, 100000)

\* the sine of x milliradians, -1571 <= x <= 1571, in thousandths
SinSeries(x) ==
    LET x2 == RoundDiv(x * x, 1000)
        x3 == RoundDiv(x2 * x, 1000)
        x5 == RoundDiv(x3 * x2, 1000)
        x7 == RoundDiv(x5 * x2, 1000)
    IN  x - RoundDiv(x3, 6) + RoundDiv(x5, 120) - RoundDiv(x7, 5040)

\* math.sin of x milliradians, in thousandths
Sin(x) ==
    LET r == ((x + 3142) % 6283) - 3142
        f == IF r > 1571 THEN 3142 - r ELSE IF r < -1571 THEN -3142 - r ELSE r
    IN  Max(-1000, Min(1000, SinSeries(f)))

\* math.cos of x milliradians, in thousandths
Cos(x) == Sin(x + 1571)

---------------------------------------------------------------------------
(* The random module: one process-wide generator.  The Mersenne Twister is  *)
(* modelled by a 16-bit linear congruential generator: what the program     *)
(* relies on is that seed() fixes the state and that every draw is a        *)
(* function of the state that advances it.                                  *)

RandomModulus == 256 * 256

\* random.seed(h)
RandomSeed(h) == h % RandomModulus

\* the state after one draw
RandomStep(s) == (25173 * s + 13849) % RandomModulus

\* random.randint(a, b), drawn in state s
Randint(s, a, b) == a + (RandomStep(s) * (b - a + 1)) \div RandomModulus

\* random.random() * 2 * math.pi, drawn in state s, in milliradians
RandomAngle(s) == (RandomStep(s) * 6283) \div RandomModulus

\* hash((cx, cy, cz)): a function of the three integers alone
HashChunk(c) == ((((c[1] % RandomModulus) * 31 + c[2]) * 31) + c[3]) % RandomModulus

---------------------------------------------------------------------------
(* Planet *)

HexDigits == <<"0", "1", "2", "3", "4", "5", "6", "7", "8", "9",
               "a", "b", "c", "d", "e", "f">>

IsHexDigit(ch) == \E i \in 1..16 : HexDigits[i] = ch

HexVal(ch) == (CHOOSE i \in 1..16 : HexDigits[i] = ch) - 1

\* the value of a run of hex digits, most significant first
RECURSIVE HexNumber(_)
HexNumber(digits) ==
    IF digits = <<>> THEN 0
    ELSE 16 * HexNumber(SubSeq(digits, 1, Len(digits) - 1)) + HexVal(digits[Len(digits)])

\* int(text[a:b], 16) for a string given as its characters; -1 stands for ValueError
\* (an empty slice, or a character that is no hex digit)
IntHexSlice(text, a, b) ==
    LET part == SubSeq(text, a + 1, Min(b, Len(text)))
    IN  IF part = <<>> \/ \E i \in 1..Len(part) : ~IsHexDigit(part[i]) THEN -1
        ELSE HexNumber(part)

\* '#4488ff'
DefaultOcean == <<"#", "4", "4", "8", "8", "f", "f">>

\* Planet.__init__(pos, data, heightmap_bytes) run with the generator in state s.
\* ok = FALSE: the constructor raised err.  color holds the numerators of the
\* three n / 255.  heightmap is "none", "png" (a readable image) or "corrupt".
PlanetInit(pos, data, heightmap, s) ==
    LET params == Get(data, "params", EmptyDict)
        ocean  == Get(Get(data, "colors", EmptyDict), "ocean", DefaultOcean)
        cr     == IntHexSlice(ocean, 1, 3)
        cg     == IntHexSlice(ocean, 3, 5)
        cb     == IntHexSlice(ocean, 5, 7)
        s1     == RandomStep(s)
    IN  IF cr < 0 \/ cg < 0 \/ cb < 0
          THEN [ok |-> FALSE, err |-> "ValueError", rng |-> s1]
        ELSE IF heightmap = "corrupt"
          THEN [ok |-> FALSE, err |-> "UnidentifiedImageError", rng |-> s1]
        ELSE [ok |-> TRUE, err |-> "", rng |-> s1,
              body |-> [pos           |-> pos,
                        name          |-> Get(data, "seed", "Unknown"),
                        type          |-> Get(data, "type", "planet"),
                        radius        |-> Fix(Get(params, "radius", 100)),
                        orbitDistance |-> Fix(Get(data, "orbitDistance", 0)),
                        orbitSpeed    |-> Get(data, "orbitSpeed", 20),
                        orbitAngle    |-> RandomAngle(s),
                        parent        |-> 0,
                        color         |-> <<cr, cg, cb>>,
                        texture       |-> heightmap = "png"]]

---------------------------------------------------------------------------
(* Universe.  A world w holds planets, genCount, heap, nextId and rng.     *)

chunk_size == 2000

\* int(a / b): the quotient truncated towards zero
Truncated(a, b) == IF a >= 0 THEN a \div b ELSE -((-a) \div b)

\* a get_chunk that truncates, int(pos.x / self.chunk_size), where the program floors
get_chunk_truncating(pos) ==
    <<Truncated(pos.x, Fix(chunk_size)), Truncated(pos.y, Fix(chunk_size)),
      Truncated(pos.z, Fix(chunk_size))>>

\* Universe.get_chunk
get_chunk(pos) ==
    <<pos.x \div Fix(chunk_size), pos.y \div Fix(chunk_size), pos.z \div Fix(chunk_size)>>

\* the dict handed to Planet for a procedural body
ProcData(radius) ==
    [seed |-> "proc", params |-> [radius |-> radius], colors |-> [ocean |-> DefaultOcean]]

\* one pass of the loop of generate_chunk in state s: the body and the state left
GenBody(c, s) ==
    LET px == c[1] * chunk_size + Randint(s, 0, chunk_size)
        s1 == RandomStep(s)
        py == c[2] * chunk_size + Randint(s1, 0, chunk_size)
        s2 == RandomStep(s1)
        pz == c[3] * chunk_size + Randint(s2, 0, chunk_size)
        s3 == RandomStep(s2)
        radius == Randint(s3, 80, 250)
        s4 == RandomStep(s3)
        s7 == RandomStep(RandomStep(RandomStep(s4)))
    IN  PlanetInit(Vec3(Fix(px), Fix(py), Fix(pz)), ProcData(radius), "none", s7)

\* the rest of the loop: k bodies still to build
RECURSIVE GenBodies(_, _, _, _)
GenBodies(c, k, s, acc) ==
    IF k = 0 THEN [bodies |-> acc, rng |-> s]
    ELSE LET r == GenBody(c, s)
         IN  GenBodies(c, k - 1, r.rng, Append(acc, r.body))

\* a generate_chunk that draws from the generator as it finds it, without
\* "random.seed(hash(chunk_key))"
ChunkBodiesUnseeded(c, s) == GenBodies(c, Randint(s, 0, 2), RandomStep(s), <<>>)

\* the body list generate_chunk builds for c when the generator is in state s
\* on entry, and the state it leaves
ChunkBodies(c, s) ==
    LET s0 == RandomSeed(HashChunk(c))
    IN  GenBodies(c, Randint(s0, 0, 2), RandomStep(s0), <<>>)

\* "self.planets[chunk_key] = chunk_planets" for the list g that was built, its
\* Planet objects taking the next ids
StoreChunk(w, c, g) ==
    [planets  |-> (c :> [i \in 1..Len(g.bodies) |-> w.nextId + i - 1]) @@ w.planets,
     genCount |-> (c :> Get(w.genCount, c, 0) + 1) @@ w.genCount,
     heap     |-> [i \in w.nextId..(w.nextId + Len(g.bodies) - 1) |->
                     g.bodies[i - w.nextId + 1]] @@ w.heap,
     nextId   |-> w.nextId + Len(g.bodies),
     rng      |-> g.rng]

\* generate_chunk past its first line: seed, build and store
BuildChunk(w, c) == StoreChunk(w, c, ChunkBodies(c, w.rng))

\* a generate_chunk without "if chunk_key in self.planets: return"
GenerateAlways(w, c) == BuildChunk(w, c)

\* Universe.generate_chunk(cx, cy, cz)
generate_chunk(w, c) == IF c \in DOMAIN w.planets THEN w ELSE BuildChunk(w, c)

\* "active.extend(self.planets[(x, y, z)])" in the world w that generate_chunk left;
\* the lookup of a key the cache lacks raises KeyError (ok = FALSE)
Extend(w, key, acc) ==
    IF key \in DOMAIN w.planets
      THEN [ok |-> TRUE, world |-> w, active |-> acc \o w.planets[key]]
    ELSE [ok |-> FALSE, world |-> w, active |-> acc]

\* the body of the innermost loop of get_active_planets, r being what the passes
\* before it left: [ok, world, active]
Visit(r, key) == Extend(generate_chunk(r.world, key), key, r.active)

\* "for z in range(cz-1, cz+2)" from z on
RECURSIVE ZLoop(_, _, _, _, _)
ZLoop(r, x, y, z, c) ==
    IF ~r.ok \/ z > c[3] + 1 THEN r
    ELSE ZLoop(Visit(r, <<x, y, z>>), x, y, z + 1, c)

\* "for y in range(cy-1, cy+2)" from y on
RECURSIVE YLoop(_, _, _, _)
YLoop(r, x, y, c) ==
    IF ~r.ok \/ y > c[2] + 1 THEN r
    ELSE YLoop(ZLoop(r, x, y, c[3] - 1, c), x, y + 1, c)

\* "for x in range(cx-1, cx+2)" from x on
RECURSIVE XLoop(_, _, _)
XLoop(r, x, c) ==
    IF ~r.ok \/ x > c[1] + 1 THEN r
    ELSE XLoop(YLoop(r, x, c[2] - 1, c), x + 1, c)

\* the chunk keys get_active_planets visits around c
Neighbourhood(c) ==
    {<<x, y, z>> : x \in (c[1] - 1)..(c[1] + 1), y \in (c[2] - 1)..(c[2] + 1),
                   z \in (c[3] - 1)..(c[3] + 1)}

\* Universe.get_active_planets(player_pos): the world after it and the list returned
get_active_planets(w, pos) ==
    XLoop([ok |-> TRUE, world |-> w, active |-> <<>>], get_chunk(pos)[1] - 1, get_chunk(pos))

---------------------------------------------------------------------------
(* Saucer.  keys holds the booleans w, s, a (K_a or K_LEFT), d (K_d or     *)
(* K_RIGHT), space and ctrl (K_LCTRL or K_c).                              *)

max_speed == 42

\* Saucer.__init__
NewSaucer ==
    [pos |-> Vec3(0, Fix(150), 0), vel |-> Vec3(0, 0, 0), yaw |-> 0, pitch |-> 0,
     speed |-> 0, cam_yaw |-> 18000, cam_pitch |-> 1800, landed_on |-> 0,
     ui_message |-> <<"W/S Thrust">>]

\* Saucer.get_forward_vector, in thousandths
get_forward_vector(p) ==
    LET rad_yaw   == Radians(p.yaw)
        rad_pitch == Radians(p.pitch)
    IN  Vec3(RoundDiv(Sin(rad_yaw) * Cos(rad_pitch), 1000),
             -Sin(rad_pitch),
             -RoundDiv(Cos(rad_yaw) * Cos(rad_pitch), 1000))

\* a landed branch that lets the yaw keys turn the craft
UpdateLandedTurning(p, keys) ==
    LET q == [p EXCEPT !.ui_message = <<"Landed on", heap[p.landed_on].name>>,
                       !.yaw = @ + (IF keys.a THEN 320 ELSE 0) - (IF keys.d THEN 320 ELSE 0)]
    IN  IF keys.space
          THEN [q EXCEPT !.landed_on = 0,
                         !.speed = Fix(10),
                         !.vel = VMul(get_forward_vector(q), Fix(10), 1000)]
          ELSE q

\* update, the branch taken while landed_on is set
UpdateLanded(p, keys) ==
    LET q == [p EXCEPT !.ui_message = <<"Landed on", heap[p.landed_on].name>>]
    IN  IF keys.space
          THEN [q EXCEPT !.landed_on = 0,
                         !.speed = Fix(10),
                         !.vel = VMul(get_forward_vector(q), Fix(10), 1000)]
          ELSE q

\* update before the landing loop, without
\* "self.speed = max(-15.0, min(self.speed, self.max_speed))"
UpdateFlightUnclamped(p, keys, mouse_dx, mouse_dy, right_held, wheel_delta) ==
    LET speed  == IF keys.w THEN p.speed + 17
                  ELSE IF keys.s THEN p.speed - 19
                  ELSE RoundDiv(p.speed * 96, 100)
        yaw    == p.yaw + (IF keys.a THEN 320 ELSE 0) - (IF keys.d THEN 320 ELSE 0)
        y1     == p.pos.y + (IF keys.space THEN 50 ELSE 0) - (IF keys.ctrl THEN 50 ELSE 0)
        pitch  == Max(-7800, Min(7800, p.pitch - wheel_delta * 450))
        q      == [p EXCEPT !.speed = speed, !.yaw = yaw, !.pitch = pitch, !.pos.y = y1]
        vel    == VMul(get_forward_vector(q), speed, 1000)
    IN  [q EXCEPT !.vel = vel,
                  !.pos = VAdd(q.pos, vel),
                  !.cam_yaw = IF right_held THEN q.cam_yaw + mouse_dx * 28
                              ELSE LerpAngle(q.cam_yaw, yaw + 18000, 12),
                  !.cam_pitch = IF right_held
                                  THEN Max(-6800, Min(6800, q.cam_pitch - mouse_dy * 26))
                                ELSE Lerp(q.cam_pitch, 1800, 9)]

\* update, from the controls to the camera: everything before the landing loop
UpdateFlight(p, keys, mouse_dx, mouse_dy, right_held, wheel_delta) ==
    LET thrust == IF keys.w THEN p.speed + 17
                  ELSE IF keys.s THEN p.speed - 19
                  ELSE RoundDiv(p.speed * 96, 100)
        speed  == Max(-Fix(15), Min(thrust, Fix(max_speed)))
        yaw    == p.yaw + (IF keys.a THEN 320 ELSE 0) - (IF keys.d THEN 320 ELSE 0)
        y1     == p.pos.y + (IF keys.space THEN 50 ELSE 0) - (IF keys.ctrl THEN 50 ELSE 0)
        pitch  == Max(-7800, Min(7800, p.pitch - wheel_delta * 450))
        q      == [p EXCEPT !.speed = speed, !.yaw = yaw, !.pitch = pitch, !.pos.y = y1]
        vel    == VMul(get_forward_vector(q), speed, 1000)
    IN  [q EXCEPT !.vel = vel,
                  !.pos = VAdd(q.pos, vel),
                  !.cam_yaw = IF right_held THEN q.cam_yaw + mouse_dx * 28
                              ELSE LerpAngle(q.cam_yaw, yaw + 18000, 12),
                  !.cam_pitch = IF right_held
                                  THEN Max(-6800, Min(6800, q.cam_pitch - mouse_dy * 26))
                                ELSE Lerp(q.cam_pitch, 1800, 9)]

\* a landing branch without "self.pos = p.pos.add(direction.mul(p.radius + 7.0))"
LandInPlace(p, b) ==
    [p EXCEPT !.landed_on = b, !.speed = 0, !.vel = Vec3(0, 0, 0), !.pitch = -8200]

\* the landing branch of the loop body, for body id b
Land(p, b) ==
    LET direction == Normalize(VSub(p.pos, heap[b].pos))
    IN  [p EXCEPT !.landed_on = b,
                  !.speed = 0,
                  !.vel = Vec3(0, 0, 0),
                  !.pos = VAdd(heap[b].pos, VMul(direction, heap[b].radius + Fix(7), 10000)),
                  !.pitch = -8200]

\* the bounce branch of the loop body
Bounce(p) ==
    [p EXCEPT !.ui_message = <<"WARNING: Too fast! Bouncing off atmosphere!">>,
              !.pos = VSub(p.pos, VMul(p.vel, 2, 1)),
              !.speed = RoundDiv(p.speed * 3, 10)]

\* the proximity test of the loop body
InReach(p, b) == Dist(p.pos, heap[b].pos) < heap[b].radius + Fix(23)

\* the speed test of the loop body
SlowEnough(p) == Abs(p.speed) < Fix(11)

\* the loop "for p in planets", from the i-th body on: "if dist < p.radius + 23:
\* if abs(self.speed) < 11.0: (land) else: (bounce)", and on to the next body
RECURSIVE LandingLoop(_, _, _)
LandingLoop(p, ids, i) ==
    IF i > Len(ids) THEN p
    ELSE IF ~InReach(p, ids[i]) THEN LandingLoop(p, ids, i + 1)
    ELSE IF SlowEnough(p) THEN LandingLoop(Land(p, ids[i]), ids, i + 1)
    ELSE LandingLoop(Bounce(p), ids, i + 1)

\* Saucer.update(keys, planets, mouse_dx, mouse_dy, right_held, wheel_delta)
SaucerUpdate(p, keys, ids, mouse_dx, mouse_dy, right_held, wheel_delta) ==
    IF p.landed_on # 0 THEN UpdateLanded(p, keys)
    ELSE LandingLoop(UpdateFlight(p, keys, mouse_dx, mouse_dy, right_held, wheel_delta),
                     ids, 1)

---------------------------------------------------------------------------
(* SolarSystem: [name, bodies (a sequence of body ids), center_pos]        *)

\* SolarSystem.__init__
NewSystem(name) == [name |-> name, bodies |-> <<>>, center_pos |-> Vec3(0, 0, 0)]

\* SolarSystem.add_body, for the Planet object `body` with id `id`
add_body(g, id, body) ==
    [g EXCEPT !.bodies = Append(@, id),
              !.center_pos = IF body.type = "sun" THEN body.pos ELSE @]

\* an update_orbit without the test "self.orbitDistance > 0.1"
update_orbit_any_distance(b, dtNum, dtDen, parent_pos) ==
    IF b.parent # 0
      THEN LET angle == b.orbitAngle + RoundDiv(b.orbitSpeed * dtNum * 3, dtDen)
           IN  [b EXCEPT !.orbitAngle = angle,
                         !.pos.x = parent_pos.x + RoundDiv(Cos(angle) * b.orbitDistance, 1000),
                         !.pos.z = parent_pos.z + RoundDiv(Sin(angle) * b.orbitDistance, 1000)]
      ELSE b

\* Planet.update_orbit(dt, parent_pos) with dt = dtNum / dtDen
update_orbit(b, dtNum, dtDen, parent_pos) ==
    IF b.orbitDistance > 2 /\ b.parent # 0
      THEN LET angle == b.orbitAngle + RoundDiv(b.orbitSpeed * dtNum * 3, dtDen)
           IN  [b EXCEPT !.orbitAngle = angle,
                         !.pos.x = parent_pos.x + RoundDiv(Cos(angle) * b.orbitDistance, 1000),
                         !.pos.z = parent_pos.z + RoundDiv(Sin(angle) * b.orbitDistance, 1000)]
      ELSE b

\* the loop of SolarSystem.update over the bodies from the i-th on; h is the heap
RECURSIVE SystemUpdateFrom(_, _, _, _, _)
SystemUpdateFrom(g, h, i, dtNum, dtDen) ==
    IF i > Len(g.bodies) THEN h
    ELSE LET id == g.bodies[i]
             b  == h[id]
             found == \E j \in 1..Len(g.bodies) : g.bodies[j] = b.parent
             parent_pos == IF found THEN h[b.parent].pos ELSE g.center_pos
             h1 == IF b.parent # 0
                     THEN [h EXCEPT ![id] = update_orbit(b, dtNum, dtDen, parent_pos)]
                   ELSE h
         IN  SystemUpdateFrom(g, h1, i + 1, dtNum, dtDen)

\* SolarSystem.update(dt): the heap after it
SystemUpdate(g, h, dtNum, dtDen) == SystemUpdateFrom(g, h, 1, dtNum, dtDen)

\* main(): "for sys in custom_systems: sys.update(1/60.0)", from the i-th system on
RECURSIVE UpdateAllSystems(_, _, _)
UpdateAllSystems(systems, h, i) ==
    IF i > Len(systems) THEN h
    ELSE UpdateAllSystems(systems, SystemUpdate(systems[i], h, 1, 60), i + 1)

---------------------------------------------------------------------------
(* Archives.  A zip is a function from entry names to contents; a content  *)
(* is [kind |-> "json", data |-> d], [kind |-> "zip", zip |-> z],          *)
(* [kind |-> "png"] or [kind |-> "garbage"].  What the file dialog returns *)
(* is a content, or [kind |-> "cancel"] when the dialog is dismissed.      *)
(* A loader works on m = [heap, nextId, rng, systems] and returns          *)
(* [ok, err, m]: ok = FALSE when it raised err, m as the exception left it.*)

Json(d) == [kind |-> "json", data |-> d]

Zip(z) == [kind |-> "zip", zip |-> z]

Png == [kind |-> "png"]

Garbage == [kind |-> "garbage"]

Cancelled == [kind |-> "cancel"]

\* json.loads(zip_obj.read(name).decode())
ReadJson(z, name) ==
    IF name \notin DOMAIN z THEN [ok |-> FALSE, err |-> "KeyError"]
    ELSE IF z[name].kind # "json" THEN [ok |-> FALSE, err |-> "JSONDecodeError"]
    ELSE [ok |-> TRUE, err |-> "", data |-> z[name].data]

\* zip_obj.read("heightmap.png") if "heightmap.png" in zip_obj.namelist() else None,
\* as Planet.load_texture will find it
ReadHeightmap(z) ==
    IF "heightmap.png" \notin DOMAIN z THEN "none"
    ELSE IF z["heightmap.png"].kind = "png" THEN "png" ELSE "corrupt"

\* the Planet object gets the next id
Allocate(m, body, s) ==
    [m EXCEPT !.heap = (m.nextId :> body) @@ m.heap, !.nextId = m.nextId + 1, !.rng = s]

\* what an exception leaves of m: the objects of the group under construction are
\* garbage, the draws made stay made
Abandon(m0, m) == [m0 EXCEPT !.rng = m.rng]

\* load_single_planet from "planet = Planet(p, data, heightmap_bytes)" on; r is what
\* the constructor returned
SinglePlanetBuilt(m, r) ==
    IF ~r.ok THEN [ok |-> FALSE, err |-> r.err, m |-> [m EXCEPT !.rng = r.rng]]
    ELSE [ok |-> TRUE, err |-> "",
          m |-> [Allocate(m, r.body, r.rng) EXCEPT
                   !.systems = Append(@, add_body(NewSystem(r.body.name), m.nextId, r.body))],
          message |-> <<"Loaded planet", r.body.name>>]

\* load_single_planet(zip_obj)
load_single_planet(m, z, playerPos) ==
    LET j == ReadJson(z, "planet_data.json")
        s1 == RandomStep(m.rng)
        s2 == RandomStep(s1)
        pos == VAdd(playerPos, Vec3(Fix(Randint(m.rng, 800, 1400)),
                                    Fix(Randint(s1, 80, 300)),
                                    Fix(Randint(s2, 800, 1400))))
    IN  IF ~j.ok THEN [ok |-> FALSE, err |-> j.err, m |-> m]
        ELSE SinglePlanetBuilt(m, PlanetInit(pos, j.data, ReadHeightmap(z), RandomStep(s2)))

\* list[i] in Python for a list of length n: the 1-based position, 0 for IndexError
PyIndex(n, i) ==
    IF 0 <= i /\ i < n THEN i + 1
    ELSE IF i < 0 /\ -i <= n THEN n + i + 1
    ELSE 0

\* "if info.get('parentId') is not None and info['parentId'] < len(sys.bodies):
\*      planet.parent = sys.bodies[info['parentId']]": the parent's id (0: none)
ResolveParent(info, bodies) ==
    IF "parentId" \notin DOMAIN info THEN [ok |-> TRUE, parent |-> 0]
    ELSE IF info.parentId < Len(bodies)
      THEN (IF PyIndex(Len(bodies), info.parentId) = 0
              THEN [ok |-> FALSE, parent |-> 0]
            ELSE [ok |-> TRUE, parent |-> bodies[PyIndex(Len(bodies), info.parentId)]])
    ELSE [ok |-> TRUE, parent |-> 0]

\* a loop body that resolves the parent index after "sys.add_body(planet)"
SystemBodyBuiltAddFirst(info, g, m, r) ==
    IF ~r.ok THEN [ok |-> FALSE, err |-> r.err, g |-> g, m |-> [m EXCEPT !.rng = r.rng]]
    ELSE
      LET par == ResolveParent(info, Append(g.bodies, m.nextId))
          planet == [r.body EXCEPT
                       !.orbitDistance = Fix(Get(info, "orbitDistance", 0)),
                       !.orbitSpeed = Get(info, "orbitSpeed", 20),
                       !.parent = par.parent]
      IN  [ok |-> TRUE, err |-> "",
           g |-> add_body(g, m.nextId, planet),
           m |-> Allocate(m, planet, r.rng)]

\* the loop body of load_solar_system from "planet = Planet(pos, data, h_bytes)" on;
\* r is what the constructor returned.  [ok, err, g, m]
SystemBodyBuilt(info, g, m, r) ==
    IF ~r.ok THEN [ok |-> FALSE, err |-> r.err, g |-> g, m |-> [m EXCEPT !.rng = r.rng]]
    ELSE
      LET par == ResolveParent(info, g.bodies)
          planet == [r.body EXCEPT
                       !.orbitDistance = Fix(Get(info, "orbitDistance", 0)),
                       !.orbitSpeed = Get(info, "orbitSpeed", 20),
                       !.parent = par.parent]
      IN  IF ~par.ok
            THEN [ok |-> FALSE, err |-> "IndexError", g |-> g, m |-> [m EXCEPT !.rng = r.rng]]
          ELSE [ok |-> TRUE, err |-> "",
                g |-> add_body(g, m.nextId, planet),
                m |-> Allocate(m, planet, r.rng)]

\* the body of "for info in manifest.get('bodies', [])" for one info whose file
\* is in the archive: [ok, err, g, m]
SystemBody(z, info, g, m) ==
    LET inner == z[info.file]
        j == IF inner.kind = "zip" THEN ReadJson(inner.zip, "planet_data.json")
             ELSE [ok |-> FALSE, err |-> "BadZipFile"]
        pos == VAdd(g.center_pos, Vec3(Fix(Get(info, "orbitDistance", 300)), 0, 0))
    IN  IF ~j.ok THEN [ok |-> FALSE, err |-> j.err, g |-> g, m |-> m]
        ELSE SystemBodyBuilt(info, g, m,
                             PlanetInit(pos, j.data, ReadHeightmap(inner.zip), m.rng))

\* a loop of load_solar_system that reads info['file'] from the archive without
\* "if info['file'] in zip_obj.namelist()"
RECURSIVE SystemBodies(_, _, _, _)
SystemBodiesUnguarded(z, infos, i, r) ==
    IF ~r.ok \/ i > Len(infos) THEN r
    ELSE IF infos[i].file \notin DOMAIN z THEN [r EXCEPT !.ok = FALSE, !.err = "KeyError"]
    ELSE SystemBodies(z, infos, i + 1, SystemBody(z, infos[i], r.g, r.m))

\* "for info in manifest.get('bodies', [])" from the i-th info on, r being what the
\* passes before it left: [ok, err, g, m]
SystemBodies(z, infos, i, r) ==
    IF ~r.ok \/ i > Len(infos) THEN r
    ELSE IF infos[i].file \notin DOMAIN z THEN SystemBodies(z, infos, i + 1, r)
    ELSE SystemBodies(z, infos, i + 1, SystemBody(z, infos[i], r.g, r.m))

\* a load_solar_system that appends its group whether or not the loop completed
SystemLoadedAnyway(m, r) ==
    [ok |-> r.ok, err |-> r.err,
     m |-> [r.m EXCEPT !.systems = Append(@, r.g)],
     message |-> <<"Loaded system", r.g.name>>]

\* load_solar_system after its loop returned r: "custom_systems.append(sys)", or the
\* exception on its way out
SystemLoaded(m, r) ==
    IF ~r.ok THEN [ok |-> FALSE, err |-> r.err, m |-> Abandon(m, r.m)]
    ELSE [ok |-> TRUE, err |-> "",
          m |-> [r.m EXCEPT !.systems = Append(@, r.g)],
          message |-> <<"Loaded system", r.g.name>>]

\* load_solar_system(zip_obj)
load_solar_system(m, z, playerPos) ==
    LET j == ReadJson(z, "system_data.json")
    IN  IF ~j.ok THEN [ok |-> FALSE, err |-> j.err, m |-> m]
        ELSE SystemLoaded(m,
               SystemBodies(z, Get(j.data, "bodies", <<>>), 1,
                            [ok |-> TRUE, err |-> "",
                             g |-> [NewSystem(Get(j.data, "name", "Imported System"))
                                      EXCEPT !.center_pos = playerPos],
                             m |-> m]))

\* the inner loop body of load_galaxy from "planet = Planet(pos, body_data)" on
GalaxyBodyBuilt(body_data, g, m, r) ==
    IF ~r.ok THEN [ok |-> FALSE, err |-> r.err, g |-> g, m |-> [m EXCEPT !.rng = r.rng]]
    ELSE LET planet == [r.body EXCEPT
                          !.orbitDistance = Fix(Get(body_data, "orbitDistance", 0)),
                          !.orbitSpeed = Get(body_data, "orbitSpeed", 20)]
         IN  [ok |-> TRUE, err |-> "",
              g |-> add_body(g, m.nextId, planet),
              m |-> Allocate(m, planet, r.rng)]

\* the body of "for body_data in sys_data.get('bodies', [])": [ok, err, g, m]
GalaxyBody(body_data, g, m) ==
    GalaxyBodyBuilt(body_data, g, m,
        PlanetInit(VAdd(g.center_pos, Vec3(Fix(Get(body_data, "orbitDistance", 0)), 0, 0)),
                   body_data, "none", m.rng))

\* "for body_data in sys_data.get('bodies', [])" from the i-th on, r being what the
\* passes before it left: [ok, err, g, m]
RECURSIVE GalaxyBodies(_, _, _)
GalaxyBodies(datas, i, r) ==
    IF ~r.ok \/ i > Len(datas) THEN r
    ELSE GalaxyBodies(datas, i + 1, GalaxyBody(datas[i], r.g, r.m))

\* the outer loop body after its inner loop returned r: "custom_systems.append(sys)",
\* or the exception on its way out
GalaxySystemBuilt(m, r) ==
    IF ~r.ok THEN [ok |-> FALSE, err |-> r.err, m |-> Abandon(m, r.m)]
    ELSE [ok |-> TRUE, err |-> "", m |-> [r.m EXCEPT !.systems = Append(@, r.g)]]

\* the body of "for sys_data in galaxy.get('systems', [])[:4]": [ok, err, m]
GalaxySystem(sys_data, m, playerPos) ==
    LET s1 == RandomStep(m.rng)
        center == VAdd(playerPos, Vec3(Fix(Randint(m.rng, -2000, 2000)), 0,
                                       Fix(Randint(s1, -2000, 2000))))
    IN  GalaxySystemBuilt(m,
          GalaxyBodies(Get(sys_data, "bodies", <<>>), 1,
                       [ok |-> TRUE, err |-> "",
                        g |-> [NewSystem(Get(sys_data, "name", "Galaxy System"))
                                 EXCEPT !.center_pos = center],
                        m |-> [m EXCEPT !.rng = RandomStep(s1)]]))

\* "for sys_data in galaxy.get('systems', [])[:4]" from the i-th on, r being what
\* the passes before it left: [ok, err, m]
RECURSIVE GalaxySystems(_, _, _, _)
GalaxySystems(systems, i, r, playerPos) ==
    IF ~r.ok \/ i > Len(systems) THEN r
    ELSE GalaxySystems(systems, i + 1, GalaxySystem(systems[i], r.m, playerPos), playerPos)

\* the number of systems load_galaxy reads from one archive
GalaxyLimit == 4

\* load_galaxy after its loop returned r
GalaxyLoaded(name, r) ==
    IF ~r.ok THEN r
    ELSE [ok |-> TRUE, err |-> "", m |-> r.m, message |-> <<"Loaded galaxy chunk", name>>]

\* load_galaxy(zip_obj)
load_galaxy(m, z, playerPos) ==
    LET j == ReadJson(z, "galaxy_data.json")
    IN  IF ~j.ok THEN [ok |-> FALSE, err |-> j.err, m |-> m]
        ELSE GalaxyLoaded(Get(j.data, "name", "Galaxy"),
               GalaxySystems(SubSeq(Get(j.data, "systems", <<>>), 1,
                                    Min(GalaxyLimit, Len(Get(j.data, "systems", <<>>)))),
                             1, [ok |-> TRUE, err |-> "", m |-> m], playerPos))

\* a load_editor_zip that looks for the manifests in the order planet, system, galaxy
DispatchPlanetFirst(file) ==
    IF file.kind = "cancel" THEN "cancel"
    ELSE IF file.kind # "zip" THEN "unreadable"
    ELSE IF "planet_data.json" \in DOMAIN file.zip THEN "planet"
    ELSE IF "system_data.json" \in DOMAIN file.zip THEN "system"
    ELSE IF "galaxy_data.json" \in DOMAIN file.zip THEN "galaxy"
    ELSE "unknown"

\* the loader load_editor_zip picks for what the dialog returned
Dispatch(file) ==
    IF file.kind = "cancel" THEN "cancel"
    ELSE IF file.kind # "zip" THEN "unreadable"
    ELSE IF "galaxy_data.json" \in DOMAIN file.zip THEN "galaxy"
    ELSE IF "system_data.json" \in DOMAIN file.zip THEN "system"
    ELSE IF "planet_data.json" \in DOMAIN file.zip THEN "planet"
    ELSE "unknown"

\* load_editor_zip once the loader returned r: past the try block, or in its
\* except clause
Loaded(r) ==
    IF r.ok THEN [m |-> r.m, ui_message |-> r.message]
    ELSE [m |-> r.m, ui_message |-> <<"Load error", r.err>>]

\* load_editor_zip(): m and player.ui_message after it
load_editor_zip(m, file, playerPos, ui_message) ==
    LET d == Dispatch(file)
    IN  IF d = "cancel" THEN [m |-> m, ui_message |-> ui_message]
        ELSE IF d = "unreadable" THEN [m |-> m, ui_message |-> <<"Load error", "BadZipFile">>]
        ELSE IF d = "galaxy" THEN Loaded(load_galaxy(m, file.zip, playerPos))
        ELSE IF d = "system" THEN Loaded(load_solar_system(m, file.zip, playerPos))
        ELSE IF d = "planet" THEN Loaded(load_single_planet(m, file.zip, playerPos))
        ELSE [m |-> m, ui_message |-> <<"Unknown editor file format">>]

---------------------------------------------------------------------------
(* The inputs the model draws: archives on disk, and what a frame samples. *)

\* the most body references in a system manifest
MaxBodies == 2

\* the most systems in a galaxy manifest
MaxSystems == 5

\* the most load_editor_zip calls in a run
MaxImports == 1

\* the most iterations of the main loop in a run
MaxFrames == 2

\* the most Saucer.update (or SolarSystem.update) calls in a run of one component
MaxTicks == 2

\* all sequences over S of length at most n
SeqsUpTo(S, n) == UNION {[1..k -> S] : k \in 0..n}

EarthData ==
    [seed |-> "Earth", params |-> [radius |-> 150],
     colors |-> [ocean |-> <<"#", "1", "1", "2", "2", "3", "3">>]]

SunData == [seed |-> "Sol", type |-> "sun", params |-> [radius |-> 200]]

BadHexData == [seed |-> "Bad", colors |-> [ocean |-> <<"#", "z", "z", "0", "0", "0", "0">>]]

ShortHexData == [seed |-> "Short", colors |-> [ocean |-> <<"#", "1", "2">>]]

PlanetZip(d) == ("planet_data.json" :> Json(d))

\* single-planet archives
PlanetFiles ==
    {Zip(PlanetZip(d)) : d \in {EarthData, SunData, BadHexData, ShortHexData, EmptyDict}}
    \cup {Zip(PlanetZip(EarthData) @@ ("heightmap.png" :> Png)),
          Zip(PlanetZip(EarthData) @@ ("heightmap.png" :> Garbage)),
          Zip("planet_data.json" :> Garbage)}

\* the names a system manifest gives its body files, by position
BodyFiles == <<"body0.zip", "body1.zip", "body2.zip", "body3.zip">>

\* a body reference of a system manifest (without its file name) and the nested
\* file the archive holds for it (present = FALSE: the archive holds none)
Ref(info, present, content) == [info |-> info, present |-> present, content |-> content]

PlainRef == Ref([orbitDistance |-> 400], TRUE, Zip(PlanetZip(EarthData)))

MoonRef ==
    Ref([orbitDistance |-> 60, orbitSpeed |-> 100, parentId |-> 0], TRUE, Zip(PlanetZip(EmptyDict)))

NegativeParentRef ==
    Ref([orbitDistance |-> 60, parentId |-> -1], TRUE, Zip(PlanetZip(EarthData)))

LargeParentRef ==
    Ref([orbitDistance |-> 60, parentId |-> 7], TRUE, Zip(PlanetZip(EarthData)))

\* a body with a parent and no orbit radius
StillMoonRef ==
    Ref([orbitDistance |-> 0, parentId |-> 0], TRUE, Zip(PlanetZip(EarthData)))

MissingRef == Ref([orbitDistance |-> 400], FALSE, Garbage)

SunRef == Ref(EmptyDict, TRUE, Zip(PlanetZip(SunData)))

BadHexRef == Ref([orbitDistance |-> 400], TRUE, Zip(PlanetZip(BadHexData)))

NoManifestRef == Ref([orbitDistance |-> 400], TRUE, Zip("heightmap.png" :> Png))

BadManifestRef == Ref([orbitDistance |-> 400], TRUE, Zip("planet_data.json" :> Garbage))

NotZipRef == Ref([orbitDistance |-> 400], TRUE, Garbage)

\* the references combined freely, and those that appear in chosen manifests only
FreeRefs == {PlainRef, MoonRef, NegativeParentRef, MissingRef, SunRef, BadHexRef}

ChosenRefLists ==
    {<<LargeParentRef>>, <<PlainRef, LargeParentRef>>,
     <<PlainRef, StillMoonRef>>, <<SunRef, StillMoonRef>>,
     <<NoManifestRef>>, <<PlainRef, NoManifestRef>>, <<NoManifestRef, PlainRef>>,
     <<BadManifestRef>>, <<PlainRef, BadManifestRef>>,
     <<NotZipRef>>, <<PlainRef, NotZipRef>>}

\* system_data.json for a list of references
SystemManifest(refs) ==
    [name |-> "Sys",
     bodies |-> [i \in 1..Len(refs) |-> ("file" :> BodyFiles[i]) @@ refs[i].info]]

\* the system archive for a list of references
SystemZip(refs) ==
    ("system_data.json" :> Json(SystemManifest(refs)))
    @@ [f \in {BodyFiles[i] : i \in {k \in 1..Len(refs) : refs[k].present}} |->
          refs[CHOOSE i \in 1..Len(refs) : BodyFiles[i] = f].content]

SystemFiles ==
    {Zip(SystemZip(refs)) : refs \in SeqsUpTo(FreeRefs, MaxBodies) \cup ChosenRefLists}
    \cup {Zip("system_data.json" :> Garbage), Zip("system_data.json" :> Json(EmptyDict))}

\* the inline system descriptors of a galaxy manifest: one that builds, one whose
\* second body raises
GoodSystem ==
    [name |-> "Alpha",
     bodies |-> <<SunData, [seed |-> "Inner", orbitDistance |-> 300, orbitSpeed |-> 40]>>]

BadSystem ==
    [name |-> "Beta",
     bodies |-> <<[seed |-> "Outer", orbitDistance |-> 500],
                  [seed |-> "Bad", orbitDistance |-> 300,
                   colors |-> [ocean |-> <<"#", "z", "z", "0", "0", "0", "0">>]]>>]

GalaxyZip(systems) == ("galaxy_data.json" :> Json([name |-> "Gal", systems |-> systems]))

GalaxyFiles ==
    {Zip(GalaxyZip(ss)) : ss \in SeqsUpTo({GoodSystem, BadSystem}, MaxSystems)}
    \cup {Zip("galaxy_data.json" :> Garbage), Zip("galaxy_data.json" :> Json(EmptyDict))}

\* archives that hold more than one manifest, or none
MixedFiles ==
    {Zip(GalaxyZip(<<GoodSystem>>) @@ SystemZip(<<PlainRef>>) @@ PlanetZip(EarthData)),
     Zip(GalaxyZip(<<GoodSystem>>) @@ PlanetZip(EarthData)),
     Zip(GalaxyZip(<<BadSystem>>) @@ SystemZip(<<PlainRef>>)),
     Zip(SystemZip(<<PlainRef, MoonRef>>) @@ PlanetZip(EarthData)),
     Zip(SystemZip(<<BadHexRef>>) @@ PlanetZip(EarthData)),
     Zip("heightmap.png" :> Png),
     Zip(EmptyDict),
     Garbage}

\* what the file dialog can return
Files == PlanetFiles \cup SystemFiles \cup GalaxyFiles \cup MixedFiles \cup {Cancelled}

\* the files the main loop's runs choose from
FrameFiles ==
    {Zip(PlanetZip(EarthData)), Zip(PlanetZip(BadHexData)),
     Zip(SystemZip(<<SunRef, PlainRef, MoonRef>>)),
     Zip(SystemZip(<<PlainRef, BadHexRef>>)),
     Zip(GalaxyZip(<<GoodSystem, BadSystem>>)),
     Zip(EmptyDict), Garbage, Cancelled}

NoKeys == [w |-> FALSE, s |-> FALSE, a |-> FALSE, d |-> FALSE, space |-> FALSE, ctrl |-> FALSE]

\* what a frame samples besides the import key: the keys of Saucer.update, the
\* wheel, the right mouse button and the mouse movement
Sample(keys, wheel, right_held, dx, dy) ==
    [keys |-> keys, wheel |-> wheel, right_held |-> right_held, mouse_dx |-> dx, mouse_dy |-> dy]

Idle == Sample(NoKeys, 0, FALSE, 0, 0)

\* the samples the main loop's runs choose from
FrameSamples ==
    {Idle,
     Sample([NoKeys EXCEPT !.w = TRUE], 0, FALSE, 0, 0),
     Sample([NoKeys EXCEPT !.w = TRUE, !.d = TRUE], 0, FALSE, 0, 0),
     Sample([NoKeys EXCEPT !.s = TRUE, !.a = TRUE, !.space = TRUE], 1, FALSE, 0, 0),
     Sample([NoKeys EXCEPT !.ctrl = TRUE], -1, TRUE, 3, -2)}

\* the samples the flight runs choose from
FlightSamples ==
    FrameSamples
    \cup {Sample([NoKeys EXCEPT !.space = TRUE], 0, FALSE, 0, 0),
          Sample([NoKeys EXCEPT !.s = TRUE], 0, FALSE, 0, 0),
          Sample([NoKeys EXCEPT !.w = TRUE, !.space = TRUE], 0, FALSE, 0, 0)}

\* the states the generator can be in when main() reaches its loop
StartRng == {0, 40503}

---------------------------------------------------------------------------
(* main(): the state when the loop is reached, and the loop body in five    *)
(* steps: sample the devices, the import key, the universe query, the       *)
(* saucer's update, the orbits of the imported systems.                     *)

World == [planets |-> planets, genCount |-> genCount, heap |-> heap,
          nextId |-> nextId, rng |-> rng]

NoInput == Idle @@ [i |-> FALSE, file |-> Cancelled]

Init ==
    /\ planets = EmptyDict
    /\ genCount = EmptyDict
    /\ heap = EmptyDict
    /\ nextId = 1
    /\ rng \in StartRng
    /\ player = NewSaucer
    /\ custom_systems = <<>>
    /\ i_pressed = FALSE
    /\ input = NoInput
    /\ active = <<>>
    /\ chunk = <<>>
    /\ pc = "poll"
    /\ frame = 0
    /\ calls = 0
    /\ lastFile = Cancelled
    /\ dispatched = "none"

\* the top of the loop body: the event pump, key state and mouse state of the
\* frame.  file is what the dialog would return were it opened in this frame.
PollInput ==
    /\ pc = "poll"
    /\ frame < MaxFrames
    /\ \E sample \in FrameSamples, i \in BOOLEAN, file \in FrameFiles :
          /\ (i /\ ~i_pressed) => calls < MaxImports
          /\ (~(i /\ ~i_pressed)) => file = Cancelled
          /\ input' = sample @@ [i |-> i, file |-> file]
    /\ frame' = frame + 1
    /\ pc' = "import"
    /\ UNCHANGED <<planets, genCount, heap, nextId, rng, player, custom_systems,
                   i_pressed, active, chunk, calls, lastFile, dispatched>>

\* the state after a load_editor_zip call that returned r for the dialog's file
Imported(r, file) ==
    /\ heap' = r.m.heap
    /\ nextId' = r.m.nextId
    /\ rng' = r.m.rng
    /\ custom_systems' = r.m.systems
    /\ player' = [player EXCEPT !.ui_message = r.ui_message]
    /\ calls' = calls + 1
    /\ lastFile' = file
    /\ dispatched' = Dispatch(file)

\* the effect of one load_editor_zip call for which the dialog returns file
ImportEffect(file) ==
    Imported(load_editor_zip([heap |-> heap, nextId |-> nextId, rng |-> rng,
                              systems |-> custom_systems],
                             file, player.pos, player.ui_message),
             file)

\* an import key without the edge detector: "if keys[K_i]: load_editor_zip()"
ImportKeyHeld ==
    /\ pc = "import"
    /\ pc' = "query"
    /\ i_pressed' = input.i
    /\ IF input.i
         THEN ImportEffect(input.file)
       ELSE UNCHANGED <<heap, nextId, rng, custom_systems, player, calls, lastFile,
                        dispatched>>
    /\ UNCHANGED <<planets, genCount, input, active, chunk, frame>>

\* "if keys[K_i]: if not i_pressed: i_pressed = True; load_editor_zip()
\*  else: i_pressed = False"
ImportKey ==
    /\ pc = "import"
    /\ pc' = "query"
    /\ i_pressed' = input.i
    /\ IF input.i /\ ~i_pressed
         THEN ImportEffect(input.file)
       ELSE UNCHANGED <<heap, nextId, rng, custom_systems, player, calls, lastFile,
                        dispatched>>
    /\ UNCHANGED <<planets, genCount, input, active, chunk, frame>>

\* the nebula colour: random.seed(hash((cx, cy, cz))) and three draws
NebulaRng(pos) == RandomStep(RandomStep(RandomStep(RandomSeed(HashChunk(get_chunk(pos))))))

\* the state after get_active_planets returned r
Queried(r) ==
    /\ planets' = r.world.planets
    /\ genCount' = r.world.genCount
    /\ heap' = r.world.heap
    /\ nextId' = r.world.nextId
    /\ rng' = r.world.rng
    /\ active' = r.active

\* "cx, cy, cz = universe.get_chunk(player.pos)", the nebula colour and
\* "active_planets = universe.get_active_planets(player.pos)"
Query ==
    /\ pc = "query"
    /\ pc' = "update"
    /\ chunk' = get_chunk(player.pos)
    /\ Queried(get_active_planets([World EXCEPT !.rng = NebulaRng(player.pos)], player.pos))
    /\ UNCHANGED <<player, custom_systems, i_pressed, input, frame, calls, lastFile,
                   dispatched>>

\* "player.update(keys, active_planets, mouse_dx, mouse_dy, right_held, wheel_delta)";
\* the mouse movement is read only while the right button is held
PlayerUpdate ==
    /\ pc = "update"
    /\ pc' = "orbits"
    /\ player' = SaucerUpdate(player, input.keys, active,
                              IF input.right_held THEN input.mouse_dx ELSE 0,
                              IF input.right_held THEN input.mouse_dy ELSE 0,
                              input.right_held, input.wheel)
    /\ UNCHANGED <<planets, genCount, heap, nextId, rng, custom_systems, i_pressed,
                   input, active, chunk, frame, calls, lastFile, dispatched>>

\* "for sys in custom_systems: sys.update(1/60.0)"
Orbits ==
    /\ pc = "orbits"
    /\ pc' = "poll"
    /\ heap' = UpdateAllSystems(custom_systems, heap, 1)
    /\ UNCHANGED <<planets, genCount, nextId, rng, player, custom_systems, i_pressed,
                   input, active, chunk, frame, calls, lastFile, dispatched>>

Next == PollInput \/ ImportKey \/ Query \/ PlayerUpdate \/ Orbits

Spec == Init /\ [][Next]_vars

---------------------------------------------------------------------------
(* The importer on its own: load_editor_zip called with any of Files, and   *)
(* SolarSystem.update running on what it built.                             *)

\* the most load_editor_zip calls an importer run has before the one it draws
\* from Files
MaxEarlier == 1

\* the state main() reaches its loop in, with m for what importing leaves
Started(m, ui_message) ==
    /\ planets = EmptyDict
    /\ genCount = EmptyDict
    /\ heap = m.heap
    /\ nextId = m.nextId
    /\ rng = m.rng
    /\ player = [NewSaucer EXCEPT !.ui_message = ui_message]
    /\ custom_systems = m.systems
    /\ i_pressed = FALSE
    /\ input = NoInput
    /\ active = <<>>
    /\ chunk = <<>>
    /\ pc = "import"
    /\ frame = 0
    /\ calls = 0
    /\ lastFile = Cancelled
    /\ dispatched = "none"

\* the state k earlier load_editor_zip calls leave of r
RECURSIVE Earlier(_, _, _)
Earlier(r, k, files) ==
    IF k = 0 THEN r
    ELSE Earlier(load_editor_zip(r.m, files[k], NewSaucer.pos, r.ui_message), k - 1, files)

StartedWith(r) == Started(r.m, r.ui_message)

\* an importer run starts after at most MaxEarlier calls on files of the main loop
InitImport ==
    \E s \in StartRng, files \in SeqsUpTo(FrameFiles, MaxEarlier) :
        StartedWith(Earlier([m |-> [heap |-> EmptyDict, nextId |-> 1, rng |-> s,
                                    systems |-> <<>>],
                             ui_message |-> NewSaucer.ui_message],
                            Len(files), files))

\* one load_editor_zip call, the dialog returning any of Files
ImportCall ==
    /\ calls < MaxImports
    /\ \E file \in Files : ImportEffect(file)
    /\ UNCHANGED <<planets, genCount, i_pressed, input, active, chunk, pc, frame>>

\* one pass of "for sys in custom_systems: sys.update(1/60.0)"
OrbitTick ==
    /\ frame < MaxTicks
    /\ frame' = frame + 1
    /\ heap' = UpdateAllSystems(custom_systems, heap, 1)
    /\ UNCHANGED <<planets, genCount, nextId, rng, player, custom_systems, i_pressed,
                   input, active, chunk, pc, calls, lastFile, dispatched>>

NextImport == ImportCall \/ OrbitTick

SpecImport == InitImport /\ [][NextImport]_vars

---------------------------------------------------------------------------
(* The saucer on its own: Saucer.update called on a craft in flight near a  *)
(* list of bodies.                                                          *)

\* the most bodies in the list Saucer.update is given
MaxNearby == 2

\* bodies as generate_chunk builds them (centre in world units, radius)
FlightBody(x, y, z, radius) ==
    PlanetInit(Vec3(Fix(x), Fix(y), Fix(z)), ProcData(radius), "none", 0).body

\* two bodies ahead of the craft whose landing zones lie 26 apart, one off the
\* craft's axis, one behind it
FlightBodies ==
    <<FlightBody(0, 150, -300, 100), FlightBody(0, 150, -28, 100),
      FlightBody(60, 150, -260, 80), FlightBody(0, 150, 210, 80)>>

\* the lists of nearby bodies: up to MaxNearby distinct bodies in any order
FlightLists ==
    {ids \in SeqsUpTo(1..Len(FlightBodies), MaxNearby) :
        \A i, j \in 1..Len(ids) : i # j => ids[i] # ids[j]}

\* where a run finds the craft (outside every landing zone), and at what speed
FlightPositions == {Vec3(0, Fix(150), -Fix(170)), Vec3(0, Fix(150), Fix(100))}

FlightSpeeds == {0, Fix(10), Fix(20), Fix(max_speed), -Fix(15)}

InitFlight ==
    /\ planets = EmptyDict
    /\ genCount = EmptyDict
    /\ heap = FlightBodies
    /\ nextId = Len(FlightBodies) + 1
    /\ rng \in StartRng
    /\ \E pos \in FlightPositions, speed \in FlightSpeeds :
          player = [NewSaucer EXCEPT !.pos = pos, !.speed = speed]
    /\ custom_systems = <<>>
    /\ i_pressed = FALSE
    /\ input = NoInput
    /\ active \in FlightLists
    /\ chunk = <<>>
    /\ pc = "update"
    /\ frame = 0
    /\ calls = 0
    /\ lastFile = Cancelled
    /\ dispatched = "none"

\* one "player.update(keys, active_planets, ...)" on what the frame sampled
FlightTick ==
    /\ frame < MaxTicks
    /\ frame' = frame + 1
    /\ \E sample \in FlightSamples :
          /\ input' = sample @@ [i |-> FALSE, file |-> Cancelled]
          /\ player' = SaucerUpdate(player, sample.keys, active,
                                    IF sample.right_held THEN sample.mouse_dx ELSE 0,
                                    IF sample.right_held THEN sample.mouse_dy ELSE 0,
                                    sample.right_held, sample.wheel)
    /\ UNCHANGED <<planets, genCount, heap, nextId, rng, custom_systems, i_pressed,
                   active, chunk, pc, calls, lastFile, dispatched>>

NextFlight == FlightTick

SpecFlight == InitFlight /\ [][NextFlight]_vars

---------------------------------------------------------------------------
(* The saucer on the ground: Saucer.update called on a craft that has       *)
(* landed on one of the bodies of its list.                                 *)

\* the sides from which the craft came down on the body it stands on
LandingSides ==
    {Vec3(0, 0, 1), Vec3(0, 0, -1), Vec3(0, 1, 0), Vec3(0, -1, 0), Vec3(1, 0, 0),
     Vec3(1, 1, 1)}

\* the headings it landed with, in 1/100 degree
LandingYaws == {0, 9000, 18000, -9000}

\* the craft as the landing branch leaves it on body b, approached from side d
LandedCraft(b, d, yaw) ==
    Land([NewSaucer EXCEPT !.pos = VAdd(heap[b].pos, VMul(d, heap[b].radius + Fix(20), 1)),
                           !.yaw = yaw], b)

InitLanded ==
    /\ planets = EmptyDict
    /\ genCount = EmptyDict
    /\ heap = FlightBodies
    /\ nextId = Len(FlightBodies) + 1
    /\ rng = 0
    /\ active \in FlightLists
    /\ \E i \in 1..Len(active), d \in LandingSides, yaw \in LandingYaws :
          player = LandedCraft(active[i], d, yaw)
    /\ custom_systems = <<>>
    /\ i_pressed = FALSE
    /\ input = NoInput
    /\ chunk = <<>>
    /\ pc = "update"
    /\ frame = 0
    /\ calls = 0
    /\ lastFile = Cancelled
    /\ dispatched = "none"

SpecLanded == InitLanded /\ [][NextFlight]_vars

---------------------------------------------------------------------------
(* get_chunk on its own: the craft found anywhere around the cell            *)
(* boundaries, located as the frame locates it, then moved as an update      *)
(* moves it (along one axis, by 1/20 unit, a unit or a cell).                *)

\* the most moves in a run of get_chunk
MaxMoves == 2

\* coordinates on both sides of the cell boundaries at -chunk_size, 0, chunk_size
ChunkCoords ==
    {-Fix(chunk_size) - 1, -Fix(chunk_size), -Fix(1), -1, 0, 1,
     Fix(chunk_size) - 1, Fix(chunk_size), Fix(chunk_size + 1000)}

ChunkMoves ==
    LET ds == {1, -1, Fix(1), -Fix(1), Fix(chunk_size), -Fix(chunk_size)}
    IN  {Vec3(d, 0, 0) : d \in ds} \cup {Vec3(0, d, 0) : d \in ds}
        \cup {Vec3(0, 0, d) : d \in ds}

InitChunk ==
    /\ planets = EmptyDict
    /\ genCount = EmptyDict
    /\ heap = EmptyDict
    /\ nextId = 1
    /\ rng = 0
    /\ \E x \in ChunkCoords, y \in ChunkCoords, z \in ChunkCoords :
          player = [NewSaucer EXCEPT !.pos = Vec3(x, y, z)]
    /\ custom_systems = <<>>
    /\ i_pressed = FALSE
    /\ input = NoInput
    /\ active = <<>>
    /\ chunk = <<>>
    /\ pc = "query"
    /\ frame = 0
    /\ calls = 0
    /\ lastFile = Cancelled
    /\ dispatched = "none"

\* "cx, cy, cz = universe.get_chunk(player.pos)"
Locate ==
    /\ pc = "query"
    /\ pc' = "update"
    /\ chunk' = get_chunk(player.pos)
    /\ UNCHANGED <<planets, genCount, heap, nextId, rng, player, custom_systems,
                   i_pressed, input, active, frame, calls, lastFile, dispatched>>

\* "self.pos = self.pos.add(self.vel)" for a velocity along one axis
Move ==
    /\ pc = "update"
    /\ frame < MaxMoves
    /\ frame' = frame + 1
    /\ pc' = "query"
    /\ \E v \in ChunkMoves : player' = [player EXCEPT !.pos = VAdd(@, v)]
    /\ UNCHANGED <<planets, genCount, heap, nextId, rng, custom_systems, i_pressed,
                   input, active, chunk, calls, lastFile, dispatched>>

NextChunk == Locate \/ Move

SpecChunk == InitChunk /\ [][NextChunk]_vars

---------------------------------------------------------------------------
(* lerp_angle on its own: the camera swung all the way (t = 1.0) from any    *)
(* whole angle to the target behind any whole heading.                       *)

\* the largest angle, in degrees, of a run of lerp_angle
MaxAngle == 360

\* the most swings in a run of lerp_angle
MaxSwings == 1

\* whole angles, in 1/100 degree
WholeAngles == {100 * a : a \in -MaxAngle..MaxAngle}

\* "target_yaw = self.yaw + 180.0"
target_yaw(p) == p.yaw + 18000

InitAngle ==
    /\ planets = EmptyDict
    /\ genCount = EmptyDict
    /\ heap = EmptyDict
    /\ nextId = 1
    /\ rng = 0
    /\ \E current \in WholeAngles, target \in WholeAngles :
          player = [NewSaucer EXCEPT !.cam_yaw = current, !.yaw = target - 18000]
    /\ custom_systems = <<>>
    /\ i_pressed = FALSE
    /\ input = NoInput
    /\ active = <<>>
    /\ chunk = <<>>
    /\ pc = "update"
    /\ frame = 0
    /\ calls = 0
    /\ lastFile = Cancelled
    /\ dispatched = "none"

\* "self.cam_yaw = lerp_angle(self.cam_yaw, target_yaw, t)" with t = 1.0
Swing ==
    /\ frame < MaxSwings
    /\ frame' = frame + 1
    /\ player' = [player EXCEPT !.cam_yaw = LerpAngle(@, target_yaw(player), 100)]
    /\ UNCHANGED <<planets, genCount, heap, nextId, rng, custom_systems, i_pressed,
                   input, active, chunk, pc, calls, lastFile, dispatched>>

NextAngle == Swing

SpecAngle == InitAngle /\ [][NextAngle]_vars

---------------------------------------------------------------------------
(* generate_chunk on its own: called for any coordinate of a cube around    *)
(* the origin, on the universe the calls before it left.                    *)

\* the largest chunk coordinate, on each axis, of a run of generate_chunk
MaxChunk == 6

\* the most generate_chunk calls in a run of generate_chunk
MaxGenerated == 1

ChunkKeys == (-MaxChunk..MaxChunk) \X (-MaxChunk..MaxChunk) \X (-MaxChunk..MaxChunk)

InitGenerate ==
    /\ planets = EmptyDict
    /\ genCount = EmptyDict
    /\ heap = EmptyDict
    /\ nextId = 1
    /\ rng \in StartRng
    /\ player = NewSaucer
    /\ custom_systems = <<>>
    /\ i_pressed = FALSE
    /\ input = NoInput
    /\ active = <<>>
    /\ chunk = <<>>
    /\ pc = "query"
    /\ frame = 0
    /\ calls = 0
    /\ lastFile = Cancelled
    /\ dispatched = "none"

\* the state after a generate_chunk call that left the world w
Generated(w) ==
    /\ planets' = w.planets
    /\ genCount' = w.genCount
    /\ heap' = w.heap
    /\ nextId' = w.nextId
    /\ rng' = w.rng

\* "self.generate_chunk(x, y, z)"
Generate ==
    /\ frame < MaxGenerated
    /\ frame' = frame + 1
    /\ \E c \in ChunkKeys : Generated(generate_chunk(World, c))
    /\ UNCHANGED <<player, custom_systems, i_pressed, input, active, chunk, pc, calls,
                   lastFile, dispatched>>

NextGenerate == Generate

SpecGenerate == InitGenerate /\ [][NextGenerate]_vars

---------------------------------------------------------------------------
(* Properties of the universe's chunk cache, over the main loop (Spec).     *)

\* the Planet objects a cached chunk holds, in order
ChunkContent(c) == [i \in 1..Len(planets[c]) |-> heap[planets[c][i]]]

\* C1: over any sequence of get_active_planets calls at overlapping positions
\* every chunk coordinate has a body list built for it at most once: the cache
\* holds exactly the coordinates built, and an entry once present is never
\* removed or replaced, so later queries return the same body objects for it.
C1_ChunkGeneratedOnce ==
    /\ [](/\ DOMAIN genCount = DOMAIN planets
          /\ \A c \in DOMAIN genCount : genCount[c] = 1)
    /\ [][\A c \in DOMAIN planets :
            /\ c \in DOMAIN planets'
            /\ planets'[c] = planets[c]
            /\ \A i \in 1..Len(planets[c]) : heap'[planets[c][i]] = heap[planets[c][i]]]_vars

\* a second query, made from another chunk, has found cached chunks and built new ones
C1_Witness ==
    /\ frame = 2
    /\ pc = "update"
    /\ get_chunk(player.pos) # <<0, 0, 0>>
    /\ Neighbourhood(<<0, 0, 0>>) \subseteq DOMAIN planets
    /\ Neighbourhood(get_chunk(player.pos)) \subseteq DOMAIN planets

\* C2: generation is deterministic in the coordinate alone: whatever chunks were
\* generated, imports run or draws made before, the bodies cached for c (count,
\* positions, radii, colours) are those generation builds for c from any
\* generator state.
C2_GenerationDeterministic ==
    \A c \in DOMAIN planets :
        \A s \in StartRng \cup {rng} : ChunkContent(c) = ChunkBodies(c, s).bodies

\* chunks were generated after an import had drawn from the generator
C2_Witness ==
    /\ calls = 1
    /\ custom_systems # <<>>
    /\ \E c \in DOMAIN planets : planets[c] # <<>> /\ planets[c][1] > Len(custom_systems[1].bodies)

---------------------------------------------------------------------------
(* Properties of Saucer.update, over the flight runs (SpecFlight).          *)

\* the craft of the step as the landing loop receives it
Flown ==
    UpdateFlight(player, input'.keys,
                 IF input'.right_held THEN input'.mouse_dx ELSE 0,
                 IF input'.right_held THEN input'.mouse_dy ELSE 0,
                 input'.right_held, input'.wheel)

\* a step is one update of a craft in flight
FlyingUpdate == frame' = frame + 1 /\ player.landed_on = 0

\* some pass of the landing loop, from the i-th body on, meets a body in reach
\* while the craft p is slow enough (passes before it can only have bounced)
RECURSIVE SlowHit(_, _, _)
SlowHit(p, ids, i) ==
    IF i > Len(ids) THEN FALSE
    ELSE IF ~InReach(p, ids[i]) THEN SlowHit(p, ids, i + 1)
    ELSE SlowEnough(p) \/ SlowHit(Bounce(p), ids, i + 1)

\* C3: Flying -> Landed.  Whenever the landing check of an update of a craft in
\* flight finds a body nearer than radius + 23 while |speed| < 11.0, the craft
\* ends the tick landed on a body of the list, with speed 0, zero velocity, and
\* at distance radius + 7 from that body's centre (to the fixed point's rounding,
\* a tenth of a unit).
C3_FlyingToLanded ==
    [][(FlyingUpdate /\ SlowHit(Flown, active, 1)) =>
         /\ \E i \in 1..Len(active) : player'.landed_on = active[i]
         /\ player'.speed = 0
         /\ player'.vel = Vec3(0, 0, 0)
         /\ Abs(Dist(player'.pos, heap[player'.landed_on].pos)
                - (heap[player'.landed_on].radius + Fix(7))) <= 2]_vars

\* the craft has landed on the body off its axis
C3_Witness ==
    /\ frame = 1
    /\ player.landed_on = 3
    /\ player.pos.x # heap[3].pos.x
    /\ player.pos.z # heap[3].pos.z

\* C4: a too-fast proximity hit is not a state transition.  For every list of
\* nearby bodies, if during an update a craft in flight is within radius + 23 of
\* a body while |speed| >= 11.0, the craft is still in flight at the end of the
\* update, its position moved back by twice the velocity and its speed
\* multiplied by 0.3.
C4_BounceKeepsFlying ==
    [][(/\ FlyingUpdate
        /\ ~SlowEnough(Flown)
        /\ \E i \in 1..Len(active) : InReach(Flown, active[i])) =>
         /\ player'.landed_on = 0
         /\ player'.pos = VSub(Flown.pos, VMul(Flown.vel, 2, 1))
         /\ player'.speed = RoundDiv(Flown.speed * 3, 10)]_vars

---------------------------------------------------------------------------
(* Properties of the importer, over the importer's runs (SpecImport).       *)

\* a step is one load_editor_zip call
ImportStep == calls' = calls + 1

\* what the importer works on before the call of the step, and what it left
Before == [heap |-> heap, nextId |-> nextId, rng |-> rng, systems |-> custom_systems]

After ==
    [m |-> [heap |-> heap', nextId |-> nextId', rng |-> rng', systems |-> custom_systems'],
     ui_message |-> player'.ui_message]

\* the call of the step ended with a failure status message
FailureReported == player'.ui_message[1] \in {"Load error", "Unknown editor file format"}

\* the groups the step appended
NewGroups == SubSeq(custom_systems', Len(custom_systems) + 1, Len(custom_systems'))

\* the groups of the list before the step are where and what they were
OldGroupsKept ==
    /\ Len(custom_systems') >= Len(custom_systems)
    /\ \A k \in 1..Len(custom_systems) : custom_systems'[k] = custom_systems[k]

\* the archive the dialog returned holds a readable JSON manifest of this name
HasManifest(file, name) ==
    /\ file.kind = "zip"
    /\ name \in DOMAIN file.zip
    /\ file.zip[name].kind = "json"

\* the archive is imported as a system: it holds no galaxy manifest, and its
\* system manifest is readable
SystemArchive(file) ==
    /\ HasManifest(file, "system_data.json")
    /\ "galaxy_data.json" \notin DOMAIN file.zip

\* the body references of a system archive's manifest, and those whose file the
\* archive holds
Infos(file) == Get(file.zip["system_data.json"].data, "bodies", <<>>)

IsPresent(file, info) == info.file \in DOMAIN file.zip

PresentInfos(file) == SelectSeq(Infos(file), LAMBDA info : IsPresent(file, info))

\* the nested archive of a present reference holds a planet manifest that parses
\* and from which Planet's constructor builds a body
Buildable(file, info) ==
    /\ file.zip[info.file].kind = "zip"
    /\ ReadJson(file.zip[info.file].zip, "planet_data.json").ok
    /\ PlanetInit(Vec3(0, 0, 0), ReadJson(file.zip[info.file].zip, "planet_data.json").data,
                  ReadHeightmap(file.zip[info.file].zip), 0).ok

\* the nested planet manifest of a present reference is missing, unparsable, or
\* has a field the constructor rejects
MalformedNested(file, info) ==
    /\ file.zip[info.file].kind = "zip"
    /\ ReadHeightmap(file.zip[info.file].zip) # "corrupt"
    /\ ~Buildable(file, info)

\* the number of bodies of each group the import of file is to append, in order
ExpectedSizes(file) ==
    IF file.kind # "zip" THEN <<>>
    ELSE IF "galaxy_data.json" \in DOMAIN file.zip
      THEN (IF ~HasManifest(file, "galaxy_data.json") THEN <<>>
            ELSE LET systems == Get(file.zip["galaxy_data.json"].data, "systems", <<>>)
                 IN  [k \in 1..Min(GalaxyLimit, Len(systems)) |->
                        Len(Get(systems[k], "bodies", <<>>))])
    ELSE IF "system_data.json" \in DOMAIN file.zip
      THEN (IF ~HasManifest(file, "system_data.json") THEN <<>>
            ELSE <<Len(PresentInfos(file))>>)
    ELSE IF "planet_data.json" \in DOMAIN file.zip THEN <<1>>
    ELSE <<>>

\* C5: import dispatch follows the priority galaxy > system > planet.  An archive
\* with galaxy_data.json is imported as a galaxy whatever else it holds; otherwise
\* one with system_data.json as a system; otherwise one with planet_data.json as a
\* single planet; one with none of the three appends no group and sets the
\* unknown-format status message.
C5_DispatchPriority ==
    [][(ImportStep /\ lastFile'.kind = "zip") =>
         IF "galaxy_data.json" \in DOMAIN lastFile'.zip
           THEN After = Loaded(load_galaxy(Before, lastFile'.zip, player.pos))
         ELSE IF "system_data.json" \in DOMAIN lastFile'.zip
           THEN After = Loaded(load_solar_system(Before, lastFile'.zip, player.pos))
         ELSE IF "planet_data.json" \in DOMAIN lastFile'.zip
           THEN After = Loaded(load_single_planet(Before, lastFile'.zip, player.pos))
         ELSE /\ custom_systems' = custom_systems
              /\ player'.ui_message = <<"Unknown editor file format">>]_vars

\* an archive that holds all three manifests was imported, as a galaxy
C5_Witness ==
    /\ calls = 1
    /\ lastFile = Zip(GalaxyZip(<<GoodSystem>>) @@ SystemZip(<<PlainRef>>) @@ PlanetZip(EarthData))
    /\ player.ui_message = <<"Loaded galaxy chunk", "Gal">>
    /\ custom_systems[Len(custom_systems)].name = "Alpha"

\* C6: no partially built group is ever in custom_systems.  A group is appended
\* only once the loop that adds its bodies has completed: every group an import
\* appends holds all the bodies its descriptor calls for, a group whose building
\* fails is not appended, and no step changes a group that is in the list.
C6_NoPartialGroup ==
    [][/\ OldGroupsKept
       /\ ImportStep =>
            /\ Len(NewGroups) <= Len(ExpectedSizes(lastFile'))
            /\ \A k \in 1..Len(NewGroups) :
                 /\ Len(NewGroups[k].bodies) = ExpectedSizes(lastFile')[k]
                 /\ \A i \in 1..Len(NewGroups[k].bodies) :
                      NewGroups[k].bodies[i] \in DOMAIN heap']_vars

\* a system import failed at its second body, the first already built
C6_Witness ==
    /\ calls = 1
    /\ lastFile = Zip(SystemZip(<<PlainRef, BadHexRef>>))
    /\ player.ui_message = <<"Load error", "ValueError">>

\* what of the craft the flight loop works on
FlightState(p) == [p EXCEPT !.ui_message = <<>>]

\* C7: a failed import has no effect on the running world.  Whenever an import
\* ends with a failure status message (load error or unknown format), the group
\* list, the chunk cache and the craft's flight state are what they were before
\* the import started.
C7_FailedImportNoEffect ==
    [][(ImportStep /\ lastFile'.kind # "cancel" /\ FailureReported) =>
         /\ custom_systems' = custom_systems
         /\ planets' = planets
         /\ FlightState(player') = FlightState(player)]_vars

\* the references of a system manifest whose parent index does not raise
ParentInRange(info) == "parentId" \notin DOMAIN info \/ info.parentId >= 0

C9_MalformedNestedTolerated ==
    [][(/\ ImportStep
        /\ SystemArchive(lastFile')
        /\ \E i \in 1..Len(PresentInfos(lastFile')) :
             MalformedNested(lastFile', PresentInfos(lastFile')[i])
        /\ \A i \in 1..Len(PresentInfos(lastFile')) :
             /\ Buildable(lastFile', PresentInfos(lastFile')[i])
                  \/ MalformedNested(lastFile', PresentInfos(lastFile')[i])
             /\ ParentInRange(PresentInfos(lastFile')[i])) =>
         /\ Len(NewGroups) = 1
         /\ player'.ui_message[1] # "Load error"]_vars

\* the parent index of the i-th reference is absent, or out of range for the
\* i - 1 bodies added before it
ParentOutOfRange(infos, i) ==
    \/ "parentId" \notin DOMAIN infos[i]
    \/ infos[i].parentId >= i - 1
    \/ infos[i].parentId < 0

\* C10: a parent index that is absent or out of range for the bodies already
\* added (too large, or negative) is ignored by a system import: in an archive
\* whose body files are all present and well-formed the import does not fail, and
\* every body with such an index is added with no parent.
C10_BadParentIgnored ==
    [][(/\ ImportStep
        /\ SystemArchive(lastFile')
        /\ \A i \in 1..Len(Infos(lastFile')) :
             /\ IsPresent(lastFile', Infos(lastFile')[i])
             /\ Buildable(lastFile', Infos(lastFile')[i])) =>
         /\ player'.ui_message[1] = "Loaded system"
         /\ Len(NewGroups) = 1
         /\ Len(NewGroups[1].bodies) = Len(Infos(lastFile'))
         /\ \A i \in 1..Len(Infos(lastFile')) :
              ParentOutOfRange(Infos(lastFile'), i) =>
                heap'[NewGroups[1].bodies[i]].parent = 0]_vars

---------------------------------------------------------------------------
(* Properties of the orbital groups, over the importer's runs (SpecImport). *)

\* the parent of the i-th body of group g is absent, or a body of g at an index
\* below i
ParentEarlier(g, i) ==
    heap[g.bodies[i]].parent # 0 =>
        \E j \in 1..(i - 1) : g.bodies[j] = heap[g.bodies[i]].parent

\* C11: in every group of the live list, after any imports and orbit updates,
\* each body's parent, if it has one, is a different body of the same group at a
\* strictly smaller index of the group's body sequence, and no body appears twice
\* in a group: the parent relation has no self-reference and no cycle.
C11_ParentEarlier ==
    \A k \in 1..Len(custom_systems) :
        \A i \in 1..Len(custom_systems[k].bodies) :
            /\ ParentEarlier(custom_systems[k], i)
            /\ \A j \in 1..(i - 1) :
                 custom_systems[k].bodies[j] # custom_systems[k].bodies[i]

\* a group with a parented body is in the list, built by the last import, and an
\* orbit update has run on it
C11_Witness ==
    /\ calls > 0
    /\ frame > 0
    /\ \E k \in 1..Len(custom_systems) :
         \E i \in 1..Len(custom_systems[k].bodies) :
            heap[custom_systems[k].bodies[i]].parent # 0

\* the positions in group g of its bodies of type sun, in order
SunIndexes(g, h) ==
    SelectSeq([i \in 1..Len(g.bodies) |-> i], LAMBDA i : h[g.bodies[i]].type = "sun")

\* C12: first sun wins.  In every group an import builds by its add_body calls,
\* once a body of type sun has been added the group's centre is the position the
\* first sun had when it was added: later suns do not override it.  (No orbit
\* update runs inside an import, so a body is still where it was added.)
C12_FirstSunWins ==
    [][ImportStep =>
         \A k \in 1..Len(NewGroups) :
            SunIndexes(NewGroups[k], heap') # <<>> =>
               NewGroups[k].center_pos =
                  heap'[NewGroups[k].bodies[SunIndexes(NewGroups[k], heap')[1]]].pos]_vars

\* a step that is one pass of SolarSystem.update over every group of the list
OrbitStep == frame' = frame + 1 /\ calls' = calls

\* update_orbit treats the body as a fixed anchor: no parent, or an orbit radius
\* of at most 0.1
Anchored(b) == b.parent = 0 \/ b.orbitDistance <= 2

\* C13: orbit advancement leaves anchors alone.  SolarSystem.update changes
\* neither the position nor the orbit angle (nor anything else) of a body that
\* has no parent or whose orbitDistance is at most 0.1, and of the bodies it
\* moves it changes only x, z and the orbit angle, never y.
C13_AnchorsStay ==
    [][OrbitStep =>
         /\ DOMAIN heap' = DOMAIN heap
         /\ \A id \in DOMAIN heap :
              /\ Anchored(heap[id]) => heap'[id] = heap[id]
              /\ heap'[id] = [heap[id] EXCEPT !.pos.x = heap'[id].pos.x,
                                              !.pos.z = heap'[id].pos.z,
                                              !.orbitAngle = heap'[id].orbitAngle]]_vars

\* an orbit update has run on a group that holds a body in orbit around its parent
\* (now on the circle around it), and on one that holds a parented body with no
\* orbit radius
C13_Witness ==
    /\ frame > 0
    /\ \E id \in DOMAIN heap :
         /\ ~Anchored(heap[id])
         /\ heap[id].pos.x = heap[heap[id].parent].pos.x
                             + RoundDiv(Cos(heap[id].orbitAngle) * heap[id].orbitDistance, 1000)
         /\ heap[id].pos.y = heap[heap[id].parent].pos.y
    /\ \E k \in 1..Len(custom_systems) :
         \E i \in 1..Len(custom_systems[k].bodies) :
            /\ heap[custom_systems[k].bodies[i]].parent # 0
            /\ heap[custom_systems[k].bodies[i]].orbitDistance = 0

---------------------------------------------------------------------------
(* Properties of get_chunk, over its own runs (SpecChunk).                  *)

\* the cell c holds coordinate x: c * chunk_size <= x < (c + 1) * chunk_size, that
\* is c = floor(x / chunk_size)
InCell(x, c) == c * Fix(chunk_size) <= x /\ x < (c + 1) * Fix(chunk_size)

\* the craft is where it was located
Located == pc = "update" /\ chunk # <<>>

\* C14: get_chunk floors on every axis.  For every position, negative
\* coordinates included, the chunk coordinate is floor(position / chunk_size): the
\* cell it names holds the position.  (So two positions of one cell get the same
\* coordinate, a position one cell further gets the next one, and x = -1 is in
\* chunk x = -1, not 0.)
C14_ChunkFloors ==
    Located =>
        /\ InCell(player.pos.x, chunk[1])
        /\ InCell(player.pos.y, chunk[2])
        /\ InCell(player.pos.z, chunk[3])
        /\ player.pos.x = -Fix(1) => chunk[1] = -1

\* the craft was moved across the boundary at 0 to x = -1 and located there, in
\* the cell before the one it came from
C14_Witness ==
    /\ Located
    /\ frame > 0
    /\ player.pos.x = -Fix(1)
    /\ chunk[1] = -1
    /\ player.pos.z < -Fix(chunk_size)
    /\ chunk[3] = -2

---------------------------------------------------------------------------
(* Properties of lerp_angle, over its own runs (SpecAngle).                 *)

\* C15: lerp_angle takes the shorter arc.  For all whole angles current and
\* target, lerp_angle(current, target, 1.0) is congruent to target modulo 360
\* and at most 180 away from current; lerp_angle(350, 10, 1.0) is 370.
C15_ShorterArc ==
    [][(frame' = frame + 1) =>
         /\ (player'.cam_yaw - target_yaw(player)) % 36000 = 0
         /\ Abs(player'.cam_yaw - player.cam_yaw) <= 18000
         /\ (player.cam_yaw = 35000 /\ target_yaw(player) = 1000) =>
               player'.cam_yaw = 37000]_vars

\* the camera has swung to 370 towards a target of 10
C15_Witness ==
    /\ frame = 1
    /\ target_yaw(player) = 1000
    /\ player.cam_yaw = 37000

---------------------------------------------------------------------------
(* Properties of generate_chunk, over its own runs (SpecGenerate).          *)

\* C16: every procedurally generated body lies inside the cube of the chunk it
\* was generated for: for every cached coordinate c and every body b of its list,
\* get_chunk(b.pos) = c, and b.radius is between 80 and 250.
C16_BodiesInsideChunk ==
    \A c \in DOMAIN planets :
        \A i \in 1..Len(planets[c]) :
            /\ get_chunk(heap[planets[c][i]].pos) = c
            /\ heap[planets[c][i]].radius >= Fix(80)
            /\ heap[planets[c][i]].radius <= Fix(250)

---------------------------------------------------------------------------
(* Properties of the craft on the ground, over SpecLanded.                  *)

\* the craft is in flight and has not moved since it took off from body b: the
\* takeoff branch left the "Landed on" message and the position it stood at
TookOffFrom(b) ==
    /\ player.landed_on = 0
    /\ player.ui_message[1] = "Landed on"
    /\ \E i \in 1..Len(active) : active[i] = b
    /\ Abs(Dist(player.pos, heap[b].pos) - (heap[b].radius + Fix(7))) <= 2

\* the craft is in flight outside the landing zone of body b
FlyingClearOf(b) ==
    /\ player.landed_on = 0
    /\ Dist(player.pos, heap[b].pos) >= heap[b].radius + Fix(23)

\* the craft after the update in which the frame samples `sample`
UpdatedWith(sample) ==
    SaucerUpdate(player, sample.keys, active,
                 IF sample.right_held THEN sample.mouse_dx ELSE 0,
                 IF sample.right_held THEN sample.mouse_dy ELSE 0,
                 sample.right_held, sample.wheel)

\* C17: after a craft has taken off from a body B it can leave B: the landing
\* check of the update following the takeoff does not force it back to Landed on
\* B, that is some control input of that update leaves it anywhere but landed on B
\* (without which it can never be flying radius + 23 or more away from B).
C17_CanLeaveAfterTakeoff ==
    \A b \in DOMAIN heap :
        TookOffFrom(b) => \E sample \in FlightSamples : UpdatedWith(sample).landed_on # b

\* what the runs show instead: whenever a craft that started on the ground is in
\* flight, it is still where it stood on a body of its list, inside that body's
\* landing zone: it never flies clear of the body it took off from
NeverClear ==
    player.landed_on = 0 =>
        \E i \in 1..Len(active) : TookOffFrom(active[i]) /\ ~FlyingClearOf(active[i])

\* an update of a craft that is landed
LandedUpdate == frame' = frame + 1 /\ player.landed_on # 0

\* C20: while the craft is Landed and the takeoff control is not pressed,
\* Saucer.update leaves position, velocity, speed, yaw, pitch, camera yaw and
\* pitch and landed_on unchanged whatever the other controls (thrust, yaw,
\* vertical, wheel, mouse) are, and only rewrites the status message; the craft
\* leaves Landed only through the takeoff control.
C20_LandedFrame ==
    [][LandedUpdate =>
         /\ ~input'.keys.space =>
              /\ player' = [player EXCEPT !.ui_message = player'.ui_message]
              /\ player'.ui_message = <<"Landed on", heap[player.landed_on].name>>
         /\ player'.landed_on # player.landed_on => input'.keys.space]_vars

\* a landed craft has been updated with the descent key, the wheel, the right
\* button and the mouse in use and is still landed, its status rewritten
C20_Witness ==
    /\ frame = 1
    /\ player.landed_on # 0
    /\ player.ui_message[1] = "Landed on"
    /\ input.keys.ctrl
    /\ input.right_held
    /\ input.wheel # 0

---------------------------------------------------------------------------
(* Properties of the craft's speed, over the flight runs (SpecFlight).      *)

\* C18: the craft's scalar speed is within [-15, max_speed] at the end of every
\* Saucer.update, whatever the controls and whatever landings, bounces and
\* takeoffs the update and those before it made.
C18_SpeedBounded ==
    [][(frame' = frame + 1) =>
         /\ player'.speed >= -Fix(15)
         /\ player'.speed <= Fix(max_speed)]_vars

\* a second update with thrust held has ended in flight at full speed
C18_Witness ==
    /\ frame = 2
    /\ input.keys.w
    /\ player.landed_on = 0
    /\ player.speed = Fix(max_speed)

---------------------------------------------------------------------------
(* Properties of the import key, over the main loop (Spec).                 *)

\* the step that samples the devices of a new frame; before it `input` still
\* holds what the previous frame sampled (nothing pressed, before the first)
SampleStep == pc = "poll" /\ pc' = "import"

\* the step of the frame that handles the import key
ImportKeyStep == pc = "import" /\ pc' = "query"

\* C19: the import action fires once per key press.  load_editor_zip is called in
\* a frame exactly when the import key is down in that frame and was up in the
\* frame before (the edge detector holds the previous frame's key state when a
\* frame begins), at most once, so a key held across frames imports once; and
\* the import is complete within that step of the frame: no other step calls the
\* importer or changes the group list.
C19_ImportOncePerPress ==
    [][/\ SampleStep => i_pressed = input.i
       /\ ImportKeyStep =>
            /\ (calls' = calls + 1) <=> (input.i /\ ~i_pressed)
            /\ calls' \in {calls, calls + 1}
            /\ calls' = calls => custom_systems' = custom_systems
       /\ ~ImportKeyStep => (calls' = calls /\ custom_systems' = custom_systems)]_vars

\* the key is down in the second frame as it was in the first, in which an
\* import ran and appended a group
C19_Witness ==
    /\ frame = 2
    /\ pc = "import"
    /\ input.i
    /\ i_pressed
    /\ calls = 1
    /\ custom_systems # <<>>

==========================================================================
